---- MODULE Spec2Model ----
(***************************************************************************)
(* BaristaBot (baristabot_app.py): the order state machine.                *)
(*                                                                         *)
(* The program is a LangGraph StateGraph over OrderState with the nodes    *)
(* "chatbot" (the Dialogue Policy, an LLM call), "ordering" (order_node)   *)
(* and "tools" (a ToolNode no edge leads to), driven by a Streamlit        *)
(* session loop (main).  The LLM is the environment: each call returns an  *)
(* assistant message carrying any batch of tool invocation requests.       *)
(*                                                                         *)
(* Library semantics the model relies on:                                  *)
(*  - messages is reduced by add_messages (append, with ("user", text)     *)
(*    tuples coerced to human messages); order and finished are plain      *)
(*    last-value channels, overwritten by what a node returns;             *)
(*  - every assistant message has a tool_calls attribute (an empty list    *)
(*    when the LLM requested nothing); human and tool messages have none;  *)
(*  - a graph run that has not finished after its recursion limit of       *)
(*    supersteps raises GraphRecursionError out of chat_graph.invoke;      *)
(*  - the graph hands nodes the channel values themselves, so the list     *)
(*    order_node mutates in place (order.append, order.clear) is the list  *)
(*    held by st.session_state["state"]["order"]: one variable, order.     *)
(***************************************************************************)
EXTENDS Integers, Sequences, FiniteSets, TLC

VARIABLES
    session_messages,   \* st.session_state["state"]["messages"]
    session_finished,   \* st.session_state["state"]["finished"]
    order,              \* the order list (shared by session state and graph)
    messages,           \* graph channel OrderState.messages
    finished,           \* graph channel OrderState.finished
    pc,                 \* "idle" (main, between runs) or the graph position
    steps,              \* supersteps executed by the current chat_graph.invoke
    outbound_msgs,      \* order_node local
    order_placed,       \* order_node local
    next_id,            \* number of tool invocation requests the LLM has issued
    GOOGLE_API_KEY      \* os.getenv("GOOGLE_API_KEY"): <<>> is None, <<s>> the string s

vars == <<session_messages, session_finished, order, messages, finished, pc,
          steps, outbound_msgs, order_placed, next_id, GOOGLE_API_KEY>>

(***************************************************************************)
(* Bounds of the model.                                                    *)
(***************************************************************************)
\* user utterances per session
MaxTurns == 2
\* tool invocation requests in one assistant message
MaxBatch == 2
\* tool invocation requests in one session
MaxCalls == 3
\* supersteps of one graph run (LangGraph's recursion limit, reduced)
RecursionLimit == 4

(***************************************************************************)
(* Values the environment supplies.                                        *)
(***************************************************************************)
UserInputs == {"a latte please"}
AssistantTexts == {"ok"}

NoArgs == <<>>

ToolRequests ==
    {[name |-> "add_to_order", args |-> [drink |-> "Latte", modifiers |-> <<"Oat", "Vanilla">>]],
     [name |-> "add_to_order", args |-> [drink |-> "Espresso", modifiers |-> <<>>]],
     [name |-> "confirm_order", args |-> [order |-> <<>>]],
     [name |-> "clear_order", args |-> NoArgs],
     [name |-> "place_order", args |-> [order |-> <<>>]],
     [name |-> "get_menu", args |-> NoArgs],
     [name |-> "refund_order", args |-> NoArgs]}

(***************************************************************************)
(* Messages.                                                               *)
(***************************************************************************)
HumanMessage(content) == [type |-> "human", content |-> content]

AIMessage(content, tool_calls) ==
    [type |-> "ai", content |-> content, tool_calls |-> tool_calls]

ToolMessage(content, name, tool_call_id) ==
    [type |-> "tool", content |-> content, name |-> name,
     tool_call_id |-> tool_call_id]

\* a ("user", text) tuple as add_messages coerces it
Coerce(m) == HumanMessage(m[2])

add_messages(left, right) == left \o right

hasattr(msg, attr) == attr \in DOMAIN msg

END == "__end__"

(***************************************************************************)
(* The tool catalog's menu lookup.                                         *)
(***************************************************************************)
MENU ==
    "\nMENU:\nCoffee Drinks:\nEspresso, Americano, Cold Brew, Latte, Cappuccino, Mocha\n"
    \o "\nModifiers:\nMilk: Whole, Oat, Almond\nSweeteners: Vanilla, Hazelnut, Caramel\n"

get_menu == MENU

(***************************************************************************)
(* Pure helpers of order_node.                                             *)
(***************************************************************************)
RECURSIVE join(_, _)
join(sep, items) ==
    IF items = <<>> THEN ""
    ELSE IF Len(items) = 1 THEN items[1]
    ELSE items[1] \o sep \o join(sep, Tail(items))

randint(a, b) == a .. b

LineItem(drink, modifiers) ==
    drink \o " (" \o (IF modifiers # <<>> THEN join(", ", modifiers) ELSE "no modifiers") \o ")"

\* The branches of the for loop's if/elif chain: each gives the order, the
\* order_placed flag and the response after handling tool_call.

\* variant: the line item is inserted at the front of the order
AddToOrderBranch_Prepends(tool_call, ord, placed) ==
    LET appended == <<LineItem(tool_call.args.drink, tool_call.args.modifiers)>> \o ord
    IN  [order |-> appended, order_placed |-> placed,
         response |-> "Order updated: " \o join(", ", appended) \o "."]

\* variant: the response is built before the append
AddToOrderBranch_ReplyBeforeAppend(tool_call, ord, placed) ==
    [order |-> Append(ord, LineItem(tool_call.args.drink, tool_call.args.modifiers)),
     order_placed |-> placed,
     response |-> "Order updated: " \o join(", ", ord) \o "."]

\* lines 89-93
AddToOrderBranch(tool_call, ord, placed) ==
    LET appended == Append(ord, LineItem(tool_call.args.drink, tool_call.args.modifiers))
    IN  [order |-> appended, order_placed |-> placed,
         response |-> "Order updated: " \o join(", ", appended) \o "."]

\* lines 95-96
ConfirmOrderBranch(tool_call, ord, placed) ==
    [order |-> ord, order_placed |-> placed,
     response |-> "Your order is: " \o join(", ", ord) \o ". Is this correct?"]

\* variant: only the last line item is removed
ClearOrderBranch_PopsLast(tool_call, ord, placed) ==
    [order |-> IF ord = <<>> THEN <<>> ELSE SubSeq(ord, 1, Len(ord) - 1),
     order_placed |-> placed, response |-> "Order cleared."]

\* lines 98-100
ClearOrderBranch(tool_call, ord, placed) ==
    [order |-> <<>>, order_placed |-> placed, response |-> "Order cleared."]

\* variant: the flag is not set
PlaceOrderBranch_FlagNotSet(tool_call, ord, placed, eta) ==
    [order |-> ord, order_placed |-> placed,
     response |-> "Order placed! ETA: " \o ToString(eta) \o " minutes."]

\* lines 102-104; eta is the value randint(1, 5) draws
PlaceOrderBranch(tool_call, ord, placed, eta) ==
    [order |-> ord, order_placed |-> TRUE,
     response |-> "Order placed! ETA: " \o ToString(eta) \o " minutes."]

\* lines 106-107
UnrecognizedBranch(tool_call, ord, placed) ==
    [order |-> ord, order_placed |-> placed, response |-> "Unrecognized action."]

\* variant: add_to_order and clear_order are refused once the order is placed
Dispatch_RejectsAfterFinished(tool_call, ord, placed, eta) ==
    IF finished /\ tool_call.name \in {"add_to_order", "clear_order"}
    THEN [order |-> ord, order_placed |-> placed, response |-> "Order already placed."]
    ELSE IF tool_call.name = "add_to_order" THEN AddToOrderBranch(tool_call, ord, placed)
    ELSE IF tool_call.name = "confirm_order" THEN ConfirmOrderBranch(tool_call, ord, placed)
    ELSE IF tool_call.name = "clear_order" THEN ClearOrderBranch(tool_call, ord, placed)
    ELSE IF tool_call.name = "place_order" THEN PlaceOrderBranch(tool_call, ord, placed, eta)
    ELSE UnrecognizedBranch(tool_call, ord, placed)

Dispatch(tool_call, ord, placed, eta) ==
    IF tool_call.name = "add_to_order" THEN AddToOrderBranch(tool_call, ord, placed)
    ELSE IF tool_call.name = "confirm_order" THEN ConfirmOrderBranch(tool_call, ord, placed)
    ELSE IF tool_call.name = "clear_order" THEN ClearOrderBranch(tool_call, ord, placed)
    ELSE IF tool_call.name = "place_order" THEN PlaceOrderBranch(tool_call, ord, placed, eta)
    ELSE UnrecognizedBranch(tool_call, ord, placed)

\* the nodes of the graph (lines 120-122)
Nodes == {"chatbot", "ordering", "tools"}

\* the place_order tool: the values its own draw can return (lines 75-78)
place_order == randint(1, 5)

\* variant: a batch that asks for place_order goes to the ToolNode
Router_PlaceOrderToTools(msgs) ==
    IF hasattr(msgs[Len(msgs)], "tool_calls")
    THEN IF \E k \in 1 .. Len(msgs[Len(msgs)].tool_calls) :
               msgs[Len(msgs)].tool_calls[k].name = "place_order"
         THEN "tools" ELSE "ordering"
    ELSE "chatbot"

\* variant: get_menu requests go to the ToolNode
Router_MenuToTools(msgs) ==
    IF hasattr(msgs[Len(msgs)], "tool_calls")
    THEN IF \E k \in 1 .. Len(msgs[Len(msgs)].tool_calls) :
               msgs[Len(msgs)].tool_calls[k].name = "get_menu"
         THEN "tools" ELSE "ordering"
    ELSE "chatbot"

\* the conditional edge out of "chatbot" (line 123)
Router(msgs) ==
    IF hasattr(msgs[Len(msgs)], "tool_calls") THEN "ordering" ELSE "chatbot"

(***************************************************************************)
(* Initial state: the process starts; the environment holds a key, an      *)
(* empty key or none.  The session state has the values main gives it on   *)
(* its first run.                                                          *)
(***************************************************************************)
EnvValues == {<<>>, <<"">>, <<"AIza-key">>}

\* Python's "not value" for None or a string
Not(value) == value = <<>> \/ value[1] = ""

Init ==
    /\ GOOGLE_API_KEY \in EnvValues
    /\ session_messages = <<>>
    /\ session_finished = FALSE
    /\ order = <<>>
    /\ messages = <<>>
    /\ finished = FALSE
    /\ pc = "start"
    /\ steps = 0
    /\ outbound_msgs = <<>>
    /\ order_placed = FALSE
    /\ next_id = 0

(***************************************************************************)
(* Module level: the key check, then the LLM client and the graph are      *)
(* built.  Without a key the script raises ValueError and goes no further. *)
(***************************************************************************)
\* variant: the check is missing
Startup_NoCheck ==
    /\ pc = "start"
    /\ pc' = "idle"
    /\ UNCHANGED <<session_messages, session_finished, order, messages, finished,
                   steps, outbound_msgs, order_placed, next_id, GOOGLE_API_KEY>>

Startup ==
    /\ pc = "start"
    /\ pc' = IF Not(GOOGLE_API_KEY) THEN "failed" ELSE "idle"
    /\ UNCHANGED <<session_messages, session_finished, order, messages, finished,
                   steps, outbound_msgs, order_placed, next_id, GOOGLE_API_KEY>>

(***************************************************************************)
(* main: the user sends an utterance; it is appended to the session's      *)
(* messages and chat_graph.invoke starts on the session state.             *)
(***************************************************************************)
Send ==
    /\ pc = "idle"
    /\ Len(session_messages) < MaxTurns
    /\ \E user_input \in UserInputs :
          /\ session_messages' = Append(session_messages, <<"user", user_input>>)
          /\ messages' = add_messages(<<>>,
                 [k \in 1 .. Len(session_messages') |-> Coerce(session_messages'[k])])
    /\ finished' = session_finished
    /\ pc' = "chatbot"
    /\ steps' = 0
    /\ UNCHANGED <<session_finished, order, outbound_msgs, order_placed, next_id,
                   GOOGLE_API_KEY>>

(***************************************************************************)
(* The "chatbot" node and the conditional edge that follows it.            *)
(***************************************************************************)
\* variant: the node also returns finished = False
Chatbot_ResetsFinished ==
    /\ pc = "chatbot"
    /\ steps < RecursionLimit
    /\ \E n \in 0 .. MaxBatch, content \in AssistantTexts :
          /\ next_id + n <= MaxCalls
          /\ \E reqs \in [1 .. n -> ToolRequests] :
                LET tool_calls == [k \in 1 .. n |->
                        [name |-> reqs[k].name, args |-> reqs[k].args, id |-> next_id + k]]
                IN  messages' = add_messages(messages, <<AIMessage(content, tool_calls)>>)
          /\ next_id' = next_id + n
    /\ pc' = Router(messages')
    /\ steps' = steps + 1
    /\ finished' = FALSE
    /\ UNCHANGED <<session_messages, session_finished, order,
                   outbound_msgs, order_placed, GOOGLE_API_KEY>>

Chatbot ==
    /\ pc = "chatbot"
    /\ steps < RecursionLimit
    /\ \E n \in 0 .. MaxBatch, content \in AssistantTexts :
          /\ next_id + n <= MaxCalls
          /\ \E reqs \in [1 .. n -> ToolRequests] :
                LET tool_calls == [k \in 1 .. n |->
                        [name |-> reqs[k].name, args |-> reqs[k].args, id |-> next_id + k]]
                IN  messages' = add_messages(messages, <<AIMessage(content, tool_calls)>>)
          /\ next_id' = next_id + n
    /\ pc' = Router(messages')
    /\ steps' = steps + 1
    /\ UNCHANGED <<session_messages, session_finished, order, finished,
                   outbound_msgs, order_placed,
                   GOOGLE_API_KEY>>

(***************************************************************************)
(* order_node.                                                             *)
(***************************************************************************)
tool_msg == messages[Len(messages)]

OrderNodeEnter ==
    /\ pc = "ordering"
    /\ steps < RecursionLimit
    /\ outbound_msgs' = <<>>
    /\ order_placed' = FALSE
    /\ pc' = "ordering_loop"
    /\ UNCHANGED <<session_messages, session_finished, order, messages, finished,
                   steps, next_id,
                   GOOGLE_API_KEY>>

\* variant: the requests are handled last to first
OrderNodeCall_Reversed ==
    /\ pc = "ordering_loop"
    /\ Len(outbound_msgs) < Len(tool_msg.tool_calls)
    /\ LET tool_call == tool_msg.tool_calls[Len(tool_msg.tool_calls) - Len(outbound_msgs)]
       IN  \E eta \in randint(1, 5) :
              LET r == Dispatch(tool_call, order, order_placed, eta)
              IN  /\ order' = r.order
                  /\ order_placed' = r.order_placed
                  /\ outbound_msgs' = Append(outbound_msgs,
                         ToolMessage(r.response, tool_call.name, tool_call.id))
    /\ UNCHANGED <<session_messages, session_finished, messages, finished, pc,
                   steps, next_id, GOOGLE_API_KEY>>

OrderNodeCall ==
    /\ pc = "ordering_loop"
    /\ Len(outbound_msgs) < Len(tool_msg.tool_calls)
    /\ LET tool_call == tool_msg.tool_calls[Len(outbound_msgs) + 1]
       IN  \E eta \in randint(1, 5) :
              LET r == Dispatch(tool_call, order, order_placed, eta)
              IN  /\ order' = r.order
                  /\ order_placed' = r.order_placed
                  /\ outbound_msgs' = Append(outbound_msgs,
                         ToolMessage(r.response, tool_call.name, tool_call.id))
    /\ UNCHANGED <<session_messages, session_finished, messages, finished, pc,
                   steps, next_id,
                   GOOGLE_API_KEY>>

\* variant: the run ends after order_node instead of going back to the policy
OrderNodeReturn_ThenStop ==
    /\ pc = "ordering_loop"
    /\ Len(outbound_msgs) = Len(tool_msg.tool_calls)
    /\ messages' = add_messages(messages, outbound_msgs)
    /\ finished' = order_placed
    /\ pc' = "idle"
    /\ steps' = steps + 1
    /\ UNCHANGED <<session_messages, session_finished, order, outbound_msgs,
                   order_placed, next_id, GOOGLE_API_KEY>>

\* variant: only the last result is returned
OrderNodeReturn_OnlyLastResult ==
    /\ pc = "ordering_loop"
    /\ Len(outbound_msgs) = Len(tool_msg.tool_calls)
    /\ messages' = add_messages(messages,
           IF outbound_msgs = <<>> THEN <<>> ELSE <<outbound_msgs[Len(outbound_msgs)]>>)
    /\ finished' = order_placed
    /\ pc' = "chatbot"
    /\ steps' = steps + 1
    /\ UNCHANGED <<session_messages, session_finished, order, outbound_msgs,
                   order_placed, next_id,
                   GOOGLE_API_KEY>>

OrderNodeReturn ==
    /\ pc = "ordering_loop"
    /\ Len(outbound_msgs) = Len(tool_msg.tool_calls)
    /\ messages' = add_messages(messages, outbound_msgs)
    /\ finished' = order_placed
    /\ pc' = "chatbot"
    /\ steps' = steps + 1
    /\ UNCHANGED <<session_messages, session_finished, order, outbound_msgs,
                   order_placed, next_id,
                   GOOGLE_API_KEY>>

(***************************************************************************)
(* The run exhausts its supersteps: chat_graph.invoke raises, the          *)
(* assignment to st.session_state["state"] does not happen.                *)
(***************************************************************************)
GraphRecursionError ==
    /\ pc \in {"chatbot", "ordering"}
    /\ steps = RecursionLimit
    /\ pc' = "idle"
    /\ UNCHANGED <<session_messages, session_finished, order, messages, finished,
                   steps, outbound_msgs, order_placed, next_id,
                   GOOGLE_API_KEY>>

Next ==
    \/ Startup
    \/ Send
    \/ Chatbot
    \/ OrderNodeEnter
    \/ OrderNodeCall
    \/ OrderNodeReturn
    \/ GraphRecursionError

Spec == Init /\ [][Next]_vars

TypeOK ==
    /\ pc \in {"start", "failed", "idle", "chatbot", "ordering", "ordering_loop"}
    /\ GOOGLE_API_KEY \in EnvValues
    /\ finished \in BOOLEAN
    /\ steps \in 0 .. RecursionLimit
(***************************************************************************)
(* Vocabulary of the properties.                                           *)
(***************************************************************************)
Registered == {"add_to_order", "confirm_order", "clear_order", "place_order"}

HasAI == \E k \in 1 .. Len(messages) : messages[k].type = "ai"

\* position of the latest assistant message of the graph's history
LastAI ==
    CHOOSE k \in 1 .. Len(messages) :
        /\ messages[k].type = "ai"
        /\ \A j \in (k + 1) .. Len(messages) : messages[j].type # "ai"

\* the batch of requests of the latest assistant message
Batch == messages[LastAI].tool_calls

\* the graph has just left order_node: its results are in the history
Dispatched == pc = "chatbot" /\ HasAI

\* order_node is inside its loop and has handled at least one request
Handled == pc = "ordering_loop" /\ Len(outbound_msgs) >= 1

\* the request handled last, and the reply to it
LastCall == tool_msg.tool_calls[Len(outbound_msgs)]
LastReply == outbound_msgs[Len(outbound_msgs)]

\* this step is one iteration of order_node's loop, on request NextCall
CallStep == pc = "ordering_loop" /\ Len(outbound_msgs') = Len(outbound_msgs) + 1
NextCall == tool_msg.tool_calls[Len(outbound_msgs) + 1]

\* a place_order request was answered during the latest graph run
PlacedInRun ==
    \E k \in 1 .. Len(messages) :
        messages[k].type = "tool" /\ messages[k].name = "place_order"

(***************************************************************************)
(* C1: once finished is true it stays true in every later state of the     *)
(* session, whatever batches order_node dispatches afterwards.             *)
(* Stated as the step property "finished is never changed from true to     *)
(* false".                                                                 *)
(***************************************************************************)
C1_FinishedNeverReset == [][finished => finished']_vars

(***************************************************************************)
(* C2: when the policy node answers with an assistant message that has no  *)
(* tool calls, the graph step goes to END.                                 *)
(***************************************************************************)
C2_PlainReplyEndsTurn ==
    [][(/\ pc = "chatbot"
        /\ Len(messages') = Len(messages) + 1
        /\ messages'[Len(messages')].tool_calls = <<>>) => pc' = END]_vars

(***************************************************************************)
(* C3: the router sends the step to order_node only when the latest        *)
(* message carries at least one tool invocation request.                   *)
(***************************************************************************)
C3_DispatchOnlyWithCalls ==
    pc \in {"ordering", "ordering_loop"} => Len(tool_msg.tool_calls) >= 1

(***************************************************************************)
(* C4: if a place_order request was processed during a turn, the session   *)
(* state the renderer gets when the turn is over has finished = true.      *)
(***************************************************************************)
C4_RendererSeesFinished ==
    (pc = "idle" /\ PlacedInRun) => session_finished

(***************************************************************************)
(* C5: when order_node has processed a batch that contains a place_order   *)
(* request at any position, the returned state has finished = true and the *)
(* reply to that request states an integer ETA between 1 and 5.            *)
(***************************************************************************)
C5_PlaceOrderFinishes ==
    (Dispatched /\ \E k \in 1 .. Len(Batch) : Batch[k].name = "place_order") =>
        /\ finished
        /\ Len(messages) >= LastAI + Len(Batch)
        /\ \A k \in 1 .. Len(Batch) :
              Batch[k].name = "place_order" =>
                 \E n \in 1 .. 5 :
                    messages[LastAI + k].content =
                        "Order placed! ETA: " \o ToString(n) \o " minutes."

\* a dispatched batch with place_order first and another request after it
C5_Witness ==
    /\ Dispatched
    /\ Len(Batch) = 2
    /\ Batch[1].name = "place_order"
    /\ Batch[2].name # "place_order"
    /\ finished
(***************************************************************************)
(* C6: starting from an empty order, after n add_to_order requests with no *)
(* clear_order in between, over any number of batches and turns, the order *)
(* holds exactly n line items and the k-th is the one built from the k-th  *)
(* request's drink and modifiers.                                          *)
(* Two parts.  In the session's first graph run the history still holds    *)
(* every request, and the order is compared with the add_to_order requests *)
(* processed so far.  In every run, each processed add_to_order appends    *)
(* its own line item at the end of the order and nothing but add_to_order  *)
(* and clear_order changes the order, which carries the count and the      *)
(* positions across batches, runs and turns.                               *)
(***************************************************************************)
RECURSIVE Requests(_)
Requests(msgs) ==
    IF msgs = <<>> THEN <<>>
    ELSE (IF msgs[1].type = "ai" THEN msgs[1].tool_calls ELSE <<>>)
            \o Requests(Tail(msgs))

\* requests of the latest assistant message that order_node has not handled
Unprocessed ==
    IF messages # <<>> /\ tool_msg.type = "ai"
    THEN IF pc = "ordering_loop" THEN Len(tool_msg.tool_calls) - Len(outbound_msgs)
         ELSE IF pc = "chatbot" THEN 0
         ELSE Len(tool_msg.tool_calls)
    ELSE 0

Processed ==
    SubSeq(Requests(messages), 1, Len(Requests(messages)) - Unprocessed)

IsAdd(c) == c.name = "add_to_order"

C6_FirstRun ==
    (/\ Len(session_messages) = 1
     /\ \A k \in 1 .. Len(Processed) : Processed[k].name # "clear_order") =>
        LET adds == SelectSeq(Processed, IsAdd)
        IN  /\ Len(order) = Len(adds)
            /\ \A k \in 1 .. Len(adds) :
                  order[k] = LineItem(adds[k].args.drink, adds[k].args.modifiers)

C6_Step ==
    IF CallStep /\ NextCall.name = "add_to_order"
    THEN order' = Append(order, LineItem(NextCall.args.drink, NextCall.args.modifiers))
    ELSE (CallStep /\ NextCall.name = "clear_order") \/ order' = order

C6_AddsAppendInOrder == [](C6_FirstRun) /\ [][C6_Step]_vars

\* two different line items, added by two batches of two turns
C6_Witness ==
    /\ Len(session_messages) = 2
    /\ Handled
    /\ Len(tool_msg.tool_calls) = 1
    /\ order = <<"Latte (Oat, Vanilla)", "Espresso (no modifiers)">>

(***************************************************************************)
(* C7: processing clear_order leaves the order empty whatever it held, and *)
(* is idempotent: a clear_order processed right after another one gives    *)
(* the same empty order and the same reply "Order cleared.".               *)
(***************************************************************************)
C7_ClearEmptiesOrder ==
    (Handled /\ LastCall.name = "clear_order") =>
        /\ order = <<>>
        /\ LastReply.content = "Order cleared."
        /\ (Len(outbound_msgs) >= 2
            /\ tool_msg.tool_calls[Len(outbound_msgs) - 1].name = "clear_order") =>
                 LastReply.content = outbound_msgs[Len(outbound_msgs) - 1].content

\* clear_order twice in a row, after a batch that had added an item
C7_Witness ==
    /\ Handled
    /\ Len(outbound_msgs) = 2
    /\ tool_msg.tool_calls[1].name = "clear_order"
    /\ tool_msg.tool_calls[2].name = "clear_order"
    /\ \E k \in 1 .. Len(messages) :
          messages[k].type = "tool" /\ messages[k].name = "add_to_order"
    /\ order = <<>>

(***************************************************************************)
(* C8: dispatching a batch that consists only of a tool name outside       *)
(* add_to_order, confirm_order, clear_order, place_order leaves order and  *)
(* finished as they were before the dispatch, also when finished was true, *)
(* and the reply is "Unrecognized action.".                                *)
(* Stated on every step of such a dispatch: none changes order or          *)
(* finished, and the step that returns appends that reply.                 *)
(***************************************************************************)
C8_UnrecognizedChangesNothing ==
    [][(/\ pc \in {"ordering", "ordering_loop"}
        /\ Len(tool_msg.tool_calls) = 1
        /\ tool_msg.tool_calls[1].name \notin Registered) =>
          /\ order' = order
          /\ finished' = finished
          /\ pc' = "chatbot" =>
                /\ Len(messages') = Len(messages) + 1
                /\ messages'[Len(messages')].content = "Unrecognized action."]_vars

(***************************************************************************)
(* C9: the reply to an add_to_order request is "Order updated: ", then all *)
(* line items the order holds right after that append, in order and joined *)
(* by ", ", then ".".                                                      *)
(***************************************************************************)
C9_AddReplyListsOrder ==
    (Handled /\ LastCall.name = "add_to_order") =>
        LastReply.content = "Order updated: " \o join(", ", order) \o "."

\* the reply to the second add_to_order lists both items
C9_Witness ==
    /\ Handled
    /\ LastCall.name = "add_to_order"
    /\ Len(order) = 2
    /\ LastReply.content =
          "Order updated: Latte (Oat, Vanilla), Espresso (no modifiers)."

(***************************************************************************)
(* C10: for a latest assistant message with n requests, order_node appends *)
(* exactly n tool-result messages to the history, the k-th carrying the    *)
(* identifier and the tool name of the k-th request.                       *)
(***************************************************************************)
C10_OneResultPerRequest ==
    Dispatched =>
        /\ Len(messages) = LastAI + Len(Batch)
        /\ \A k \in 1 .. Len(Batch) :
              /\ messages[LastAI + k].type = "tool"
              /\ messages[LastAI + k].tool_call_id = Batch[k].id
              /\ messages[LastAI + k].name = Batch[k].name

\* a batch of two different requests, both answered
C10_Witness ==
    /\ Dispatched
    /\ Len(Batch) = 2
    /\ Batch[1].name # Batch[2].name
    /\ Len(messages) = LastAI + 2
(***************************************************************************)
(* C11: when the policy requests get_menu, the tool-result message that    *)
(* answers the request has the static menu text as its content, and        *)
(* handling it leaves order and finished unchanged.                        *)
(***************************************************************************)
C11_MenuAnswered ==
    (Dispatched /\ Len(messages) = LastAI + Len(Batch)) =>
        \A k \in 1 .. Len(Batch) :
            Batch[k].name = "get_menu" => messages[LastAI + k].content = get_menu

C11_MenuChangesNothing ==
    (/\ pc \in {"ordering", "ordering_loop"}
     /\ Len(tool_msg.tool_calls) = 1
     /\ tool_msg.tool_calls[1].name = "get_menu") =>
        order' = order /\ finished' = finished

C11_GetMenuReturnsMenu == [](C11_MenuAnswered) /\ [][C11_MenuChangesNothing]_vars

(***************************************************************************)
(* C12: the message history of the Order State is append-only: across      *)
(* every step of a session the previous messages sequence is a prefix of   *)
(* the new one.  The Order State is the graph's state while a run is in    *)
(* progress and the session's state between runs.                          *)
(***************************************************************************)
InRun == pc \in {"chatbot", "ordering", "ordering_loop"}

History ==
    IF InRun THEN messages
    ELSE [k \in 1 .. Len(session_messages) |-> Coerce(session_messages[k])]

IsPrefix(s, t) == Len(s) <= Len(t) /\ SubSeq(t, 1, Len(s)) = s

C12_HistoryAppendOnly == [][IsPrefix(History, History')]_vars
(***************************************************************************)
(* C13: a missing credential is fatal at process start and never at        *)
(* request time: without GOOGLE_API_KEY the program fails before the graph *)
(* is built and before any utterance is accepted, and with it no later     *)
(* step fails for lack of the credential.                                  *)
(***************************************************************************)
C13_MissingKeyFatalAtStart ==
    /\ Not(GOOGLE_API_KEY) =>
          /\ pc \in {"start", "failed"}
          /\ session_messages = <<>>
          /\ messages = <<>>
          /\ steps = 0
    /\ ~Not(GOOGLE_API_KEY) => pc # "failed"

\* the process has stopped on the missing key
C13_Witness == GOOGLE_API_KEY = <<>> /\ pc = "failed"
(***************************************************************************)
(* C14: after every execution of order_node the next node executed is the  *)
(* policy node: the graph never goes from dispatch to stop or from         *)
(* dispatch to dispatch, so the node that runs on a batch of tool results  *)
(* is the policy.  (A run the recursion limit aborts executes no further   *)
(* node; the abort is not a transition of the graph.)                      *)
(***************************************************************************)
C14_Step ==
    /\ (pc = "ordering_loop" /\ pc' # "ordering_loop") => pc' = "chatbot"
    /\ (Dispatched /\ messages' # messages) =>
          /\ Len(messages') = Len(messages) + 1
          /\ SubSeq(messages', 1, Len(messages)) = messages
          /\ messages'[Len(messages')].type = "ai"

C15_Effect(c, ord) ==
    IF c.name = "add_to_order"
    THEN Append(ord, LineItem(c.args.drink, c.args.modifiers))
    ELSE IF c.name = "clear_order" THEN <<>> ELSE ord

C15_Step ==
    CallStep =>
        LET reply == outbound_msgs'[Len(outbound_msgs')]
        IN  /\ SubSeq(outbound_msgs', 1, Len(outbound_msgs)) = outbound_msgs
            /\ reply.tool_call_id = NextCall.id
            /\ reply.name = NextCall.name
            /\ order' = C15_Effect(NextCall, order)
            /\ NextCall.name = "add_to_order" =>
                  reply.content = "Order updated: " \o join(", ", order') \o "."
            /\ NextCall.name = "confirm_order" =>
                  reply.content = "Your order is: " \o join(", ", order) \o ". Is this correct?"

C15_Examples ==
    (Handled /\ Len(outbound_msgs) = 2) =>
        /\ (tool_msg.tool_calls[1].name = "add_to_order"
            /\ tool_msg.tool_calls[2].name = "clear_order") => order = <<>>
        /\ (tool_msg.tool_calls[1].name = "clear_order"
            /\ tool_msg.tool_calls[2].name = "add_to_order") =>
              order = <<LineItem(tool_msg.tool_calls[2].args.drink,
                                 tool_msg.tool_calls[2].args.modifiers)>>

C15_BatchInRequestOrder == [](C15_Examples) /\ [][C15_Step]_vars

\* [clear, add] handled on a non-empty order: one item is left
C15_Witness ==
    /\ Handled
    /\ Len(outbound_msgs) = 2
    /\ tool_msg.tool_calls[1].name = "clear_order"
    /\ tool_msg.tool_calls[2].name = "add_to_order"
    /\ \E k \in 1 .. Len(messages) :
          messages[k].type = "tool" /\ messages[k].name = "add_to_order"
    /\ Len(order) = 1
(***************************************************************************)
(* C16: only order_node changes order and finished: a policy step and the  *)
(* session loop's appending of a user utterance leave both as they are,    *)
(* and order_node changes nothing of the state but order, finished and the *)
(* tool-result messages it appends.                                        *)
(***************************************************************************)
PolicyStep == pc = "chatbot" /\ messages' # messages
SendStep == pc = "idle" /\ pc' = "chatbot"
OrderNodeStep == pc \in {"ordering", "ordering_loop"} /\ pc' # "idle"

C16_Step ==
    /\ PolicyStep => (order' = order /\ finished' = finished)
    /\ SendStep =>
          /\ order' = order
          /\ session_finished' = session_finished
          /\ finished' = session_finished
    /\ OrderNodeStep =>
          /\ session_messages' = session_messages
          /\ session_finished' = session_finished
          /\ next_id' = next_id
          /\ GOOGLE_API_KEY' = GOOGLE_API_KEY
          /\ IsPrefix(messages, messages')
          /\ \A k \in (Len(messages) + 1) .. Len(messages') : messages'[k].type = "tool"
    /\ order' # order => pc = "ordering_loop"
    /\ finished' # finished => (pc = "ordering_loop" \/ SendStep)

C16_OnlyOrderNodeMutates == [][C16_Step]_vars

\* the policy has answered while an order was held and placed
C16_Witness ==
    /\ pc = "ordering"
    /\ finished
    /\ order # <<>>

(***************************************************************************)
(* C17: order mutations are not rejected after completion: with finished   *)
(* true, an add_to_order request still appends its line item and a         *)
(* clear_order request still empties the order, each with its normal       *)
(* reply.                                                                  *)
(***************************************************************************)
C17_Step ==
    (CallStep /\ finished) =>
        LET reply == outbound_msgs'[Len(outbound_msgs')]
        IN  /\ NextCall.name = "add_to_order" =>
                  /\ order' = Append(order, LineItem(NextCall.args.drink,
                                                     NextCall.args.modifiers))
                  /\ reply.content = "Order updated: " \o join(", ", order') \o "."
            /\ NextCall.name = "clear_order" =>
                  /\ order' = <<>>
                  /\ reply.content = "Order cleared."

C17_MutationsAfterFinished == [][C17_Step]_vars

\* an item added after the order was placed
C17_Witness ==
    /\ Handled
    /\ finished
    /\ LastCall.name = "add_to_order"
    /\ Len(order) = 1
    /\ LastReply.content = "Order updated: Espresso (no modifiers)."
(***************************************************************************)
(* C18 as claimed: for one place_order invocation two ETA values are       *)
(* produced for the user, the place_order tool's own return value and the  *)
(* draw inside order_node's reply.                                         *)
(***************************************************************************)
EtaMessages(id) ==
    {k \in 1 .. Len(messages) :
        /\ messages[k].type = "tool"
        /\ messages[k].name = "place_order"
        /\ messages[k].tool_call_id = id}

PlacementsAnswered ==
    {k \in 1 .. Len(Batch) : Batch[k].name = "place_order"}

C18_TwoEtasShown ==
    (Dispatched /\ Len(messages) = LastAI + Len(Batch)) =>
        \A k \in PlacementsAnswered : Cardinality(EtaMessages(Batch[k].id)) = 2

(***************************************************************************)
(* C18 as amended: for one place_order invocation the program draws one    *)
(* ETA only, the one inside order_node's reply.  The place_order tool is   *)
(* never executed (the graph never enters the "tools" node), so no message *)
(* carries the tool's own return value and exactly one message states an   *)
(* ETA for the invocation.                                                 *)
(***************************************************************************)
C18_OneEtaDrawn ==
    /\ pc # "tools"
    /\ \A k \in 1 .. Len(messages) :
          messages[k].type = "tool" =>
             \A n \in place_order : messages[k].content # ToString(n)
    /\ (Dispatched /\ Len(messages) = LastAI + Len(Batch)) =>
          \A k \in PlacementsAnswered : Cardinality(EtaMessages(Batch[k].id)) = 1

\* a single place_order request answered with the ETA 5
C18_Witness ==
    /\ Dispatched
    /\ Len(Batch) = 1
    /\ Batch[1].name = "place_order"
    /\ Len(messages) = LastAI + 1
    /\ messages[LastAI + 1].content = "Order placed! ETA: 5 minutes."

(***************************************************************************)
(* C19: the "tools" node is unreachable: the only nodes ever executed are  *)
(* "chatbot" and "ordering", so no tool function of the catalog is         *)
(* executed and every tool-result message of the history is one order_node *)
(* returned.                                                               *)
(***************************************************************************)
C19_NodesExecuted ==
    \A n \in Nodes : (pc = n) => n \in {"chatbot", "ordering"}

C19_ResultsFromOrderNode ==
    (\E k \in 1 .. Len(messages') :
        messages'[k].type = "tool" /\ (k > Len(messages) \/ messages[k] # messages'[k])) =>
            /\ pc = "ordering_loop"
            /\ messages' = messages \o outbound_msgs

C19_ToolsNodeUnreachable == [](C19_NodesExecuted) /\ [][C19_ResultsFromOrderNode]_vars

\* get_menu and place_order of one batch, both answered by order_node
C19_Witness ==
    /\ Dispatched
    /\ Len(Batch) = 2
    /\ Batch[1].name = "get_menu"
    /\ Batch[2].name = "place_order"
    /\ Len(messages) = LastAI + 2
    /\ messages[LastAI + 1].content = "Unrecognized action."
====
